---- MODULE Spec2Model ----
(***************************************************************************)
(* Wireless sensor network routing simulator (src/app.py): the node/energy *)
(* model, the four routing rounds (Direct, LEACH, PEGASIS, TEEN), the      *)
(* single-protocol round driver and the comparison loop.                   *)
(*                                                                         *)
(* Energy is a float in the program.  Here it is an integer number of      *)
(* units of 1/1155000: with positions whose mutual distances (and          *)
(* distances to the base station) are whole numbers, every debit of the    *)
(* program is a whole number of units, so the arithmetic below is exact    *)
(* real arithmetic (float rounding is not modelled).                       *)
(***************************************************************************)
EXTENDS Integers, Sequences, FiniteSets

\* ------------------------------------------------------------ constants
WIDTH == 100
HEIGHT == 100
\* 1.0, in units of 1/1155000
INITIAL_ENERGY == 1155000
\* 0.02, in units of 1/1155000
TX_COST == 23100
\* 0.01, in units of 1/1155000
RX_COST == 11550
BS_POS == <<50, 115>>

\* smallest value of the "Simulation rounds" slider
MinRounds == 5
\* largest value of the "Simulation rounds" slider
MaxRounds == 80

\* ------------------------------------------------------------ bounds
\* nodes in a population (the slider allows 10..150)
NumNodes == 3
\* random outcomes (cluster heads, sensed values) are explored exhaustively in
\* the last FreeRounds rounds of a run (the last round); earlier rounds take one
\* fixed outcome
FreeRounds == 1
\* run lengths explored: MinRounds, MinRounds + RoundStep, ... up to MaxRounds
RoundStep == 25
\* nodes in a large population: the smallest with more than one LEACH cluster head
ManyNodes == 20

\* field positions used by create_nodes: a sample of the grid whose mutual
\* distances and distances to BS_POS are whole numbers
Positions == {<<65, 79>>, <<85, 31>>, <<95, 7>>}
\* populations handed to the routing functions directly may also sit on BS_POS
GivenPositions == {BS_POS, <<85, 31>>, <<95, 7>>}
PacketChoices == {5}
\* sample of random.uniform(0, 100)
SensedVals == {15, 60}
\* (hard, soft) threshold pairs of the two TEEN sliders (10..90, 1..20)
Thresholds == {<<50, 5>>, <<10, 20>>}
\* thresholds handed to teen() directly
GivenThresholds == {<<0, 20>>, <<10, 20>>}
\* run lengths chosen on the "Simulation rounds" slider
RoundChoices == {n \in MinRounds..MaxRounds : (n - MinRounds) % RoundStep = 0}
\* run lengths handed to the round driver directly
GivenRounds == {1, MinRounds, MaxRounds}
Protocols == <<"Direct", "LEACH", "PEGASIS", "TEEN">>
\* protocols[:3]
CompareProtocols == SubSeq(Protocols, 1, 3)
\* run lengths chosen on the slider in comparison mode
CompareRounds == {MinRounds + RoundStep}
\* energies of the populations handed to leach() directly: fresh, and nearly spent
GivenEnergies == {INITIAL_ENERGY, 30000}
\* the field positions in a fixed order, to lay out the populations handed to leach()
PosSeq == <<<<65, 79>>, <<85, 31>>, <<95, 7>>>>
NoTh == <<-1, -1>>

VARIABLES
    pc,               \* position of the script
    proto,            \* selected protocol
    rounds,           \* number of rounds
    packets,          \* packets per round
    hard, soft,       \* TEEN thresholds (-1: not TEEN)
    nodes,            \* the population: sequence of node records
    r,                \* rounds completed
    delivered_total, dead_history, energy_history,
    paths, delivered, \* locals of the routing function, returned to the driver
    alive_nodes,      \* leach / pegasis: snapshot (indices into nodes)
    cluster_heads,    \* leach: sampled heads (indices into nodes)
    i,                \* loop index of the routing function
    results,          \* comparison: protocol -> reported alive count and deliveries
    calls,            \* history: calls of a routing function made by the driver
    returned,         \* history: the delivered count returned by each call
    pre,              \* history: nodes at the start of the current round
    log               \* history: one record per loop iteration of the round

vars == <<pc, proto, rounds, packets, hard, soft, nodes, r, delivered_total,
          dead_history, energy_history, paths, delivered, alive_nodes,
          cluster_heads, i, results, calls, returned, pre, log>>

\* ------------------------------------------------------------ helpers
Max(a, b) == IF a >= b THEN a ELSE b

\* math.dist on two points whose distance is a whole number
distance(a, b) ==
    LET sq == (a[1] - b[1]) * (a[1] - b[1]) + (a[2] - b[2]) * (a[2] - b[2])
    IN  CHOOSE d \in 0..(2 * (WIDTH + HEIGHT)) : d * d = sq

\* mutant: a fixed overhead is charged on top of the distance term
TxAmountOverhead(d, divisor) == TX_COST + (TX_COST * d) \div divisor

\* TX_COST * (d / divisor)
TxAmount(d, divisor) == (TX_COST * d) \div divisor

\* mutant: the factor 0.4 is missing
RxAmountFull == RX_COST

\* RX_COST * 0.4
RxAmount == (RX_COST * 4) \div 10

RECURSIVE SumSeq(_)
SumSeq(s) == IF s = <<>> THEN 0 ELSE Head(s) + SumSeq(Tail(s))

\* node k of a fresh population
NewNode(k, p) == [id |-> k - 1, pos |-> p, energy |-> INITIAL_ENERGY, alive |-> TRUE]

\* mutant: the node is never marked dead
use_energy_immortal(node, amount) ==
    IF node.alive THEN [node EXCEPT !.energy = node.energy - amount] ELSE node

\* mutant: the amount is added instead of subtracted
use_energy_gain(node, amount) ==
    IF node.alive
    THEN LET e == node.energy + amount
         IN  [node EXCEPT !.energy = e, !.alive = ~(e <= 0)]
    ELSE node

\* mutant: the alive guard is missing and the flag is flipped, not cleared
use_energy_flip(node, amount) ==
    LET e == node.energy - amount
    IN  [node EXCEPT !.energy = e, !.alive = IF e <= 0 THEN ~node.alive ELSE node.alive]

\* mutant: the alive guard is missing
use_energy_noguard(node, amount) ==
    LET e == node.energy - amount
    IN  [node EXCEPT !.energy = e, !.alive = ~(e <= 0)]

use_energy(node, amount) ==
    IF node.alive
    THEN LET e == node.energy - amount
         IN  [node EXCEPT !.energy = e, !.alive = ~(e <= 0)]
    ELSE node

\* [n for n in nodes if n["alive"]], as indices
RECURSIVE AliveFrom(_, _)
AliveFrom(ns, k) ==
    IF k > Len(ns) THEN <<>>
    ELSE IF ns[k].alive THEN <<k>> \o AliveFrom(ns, k + 1)
    ELSE AliveFrom(ns, k + 1)

\* mutant: the alive filter is missing
AliveIdxAll(ns) == [k \in 1..Len(ns) |-> k]

AliveIdx(ns) == AliveFrom(ns, 1)

\* mutant: the sort is missing, the chain is in list order
SortById(ns, s) == s

\* sorted(..., key=lambda x: x["pos"][0]): stable, ascending x; j is the first
\* place holding the least x
RECURSIVE SortByX(_, _)
SortByX(ns, s) ==
    IF s = <<>> THEN <<>>
    ELSE CHOOSE out \in
             { <<s[j]>> \o SortByX(ns, [b \in 1..(Len(s) - 1) |->
                                          IF b < j THEN s[b] ELSE s[b + 1]]) :
               j \in { a \in 1..Len(s) :
                         \A b \in 1..Len(s) :
                             \/ ns[s[a]].pos[1] < ns[s[b]].pos[1]
                             \/ (ns[s[a]].pos[1] = ns[s[b]].pos[1] /\ a <= b) } } :
             TRUE

\* mutant: at least one head is obtained by adding one
NumCHOneMore(a) == 1 + a \div 10

\* max(1, len(alive_nodes) // 10)
NumCH(a) == Max(1, a \div 10)

\* random.sample(alive_nodes, k): the ordered samples without replacement
Samples(s, k) ==
    {[a \in 1..k |-> s[c[a]]] :
        c \in {f \in [1..k -> 1..Len(s)] : \A a, b \in 1..k : a # b => f[a] # f[b]}}

\* mutant: on a tie the last minimal head is taken
NearestHeadLast(ns, heads, p) ==
    LET j == CHOOSE a \in 1..Len(heads) :
                 /\ \A b \in 1..Len(heads) :
                        distance(ns[heads[a]].pos, p) <= distance(ns[heads[b]].pos, p)
                 /\ \A b \in (a + 1)..Len(heads) :
                        distance(ns[heads[b]].pos, p) > distance(ns[heads[a]].pos, p)
    IN  heads[j]

\* min(cluster_heads, key=distance to p): the first minimal head
NearestHead(ns, heads, p) ==
    LET j == CHOOSE a \in 1..Len(heads) :
                 /\ \A b \in 1..Len(heads) :
                        distance(ns[heads[a]].pos, p) <= distance(ns[heads[b]].pos, p)
                 /\ \A b \in 1..(a - 1) :
                        distance(ns[heads[b]].pos, p) > distance(ns[heads[a]].pos, p)
    IN  heads[j]

InSeq(x, s) == \E a \in 1..Len(s) : s[a] = x

\* mutant: counts the alive nodes
DeadCountAlive(ns) == Cardinality({k \in 1..Len(ns) : ns[k].alive})

\* sum(not n["alive"] for n in nodes)
DeadCount(ns) == Cardinality({k \in 1..Len(ns) : ~ns[k].alive})

\* sum(max(n["energy"], 0) for n in nodes)
ResidualEnergy(ns) == SumSeq([k \in 1..Len(ns) |-> Max(ns[k].energy, 0)])

\* whether round number rr (0-based) of the run explores every random outcome
FreeRound(rr) == rr >= rounds - FreeRounds

\* one loop iteration, as seen from outside: src transmitted (tx) towards dst
\* (0: the base station); before/after: src alive before/after its own debit;
\* edge: an edge was appended; counted: packets were added to delivered
Entry(src, dst, tx, before, after, edge, counted, sensed) ==
    [src |-> src, dst |-> dst, tx |-> tx, before |-> before, after |-> after,
     edge |-> edge, counted |-> counted, sensed |-> sensed]

\* ------------------------------------------------------------ initial states
\* create_nodes(n) with every position drawn from ps
Populations(ps, n) == {[k \in 1..n |-> NewNode(k, f[k])] : f \in [1..n -> ps]}

\* the state when the round loop is entered: inputs chosen, population created,
\* histories empty
InitWith(ps, sizes, lengths, ths) ==
    /\ pc = "loop"
    /\ proto \in {Protocols[k] : k \in 1..Len(Protocols)}
    /\ rounds \in lengths
    /\ packets \in PacketChoices
    /\ \E th \in (IF proto = "TEEN" THEN ths ELSE {NoTh}) : hard = th[1] /\ soft = th[2]
    /\ \E n \in sizes : nodes \in Populations(ps, n)
    /\ r = 0
    /\ delivered_total = 0
    /\ dead_history = <<>>
    /\ energy_history = <<>>
    /\ paths = <<>>
    /\ delivered = 0
    /\ alive_nodes = <<>>
    /\ cluster_heads = <<>>
    /\ i = 0
    /\ results = <<>>
    /\ calls = 0
    /\ returned = <<>>
    /\ pre = nodes
    /\ log = <<>>

\* the application: sliders and create_nodes
Init == InitWith(Positions, {NumNodes}, RoundChoices, Thresholds)

\* the simulation core called with a population and parameters of the caller's
InitGiven == InitWith(GivenPositions, {1, NumNodes}, GivenRounds, GivenThresholds)

\* populations handed to leach() directly: n nodes laid out over PosSeq in turn,
\* starting at offset s, every node alive with energy e
LeachPopulations ==
    {[k \in 1..n |-> [NewNode(k, PosSeq[((k + s) % Len(PosSeq)) + 1]) EXCEPT !.energy = e]] :
        n \in {NumNodes, ManyNodes}, s \in 1..Len(PosSeq), e \in GivenEnergies}

\* one call of leach() on a population of the caller's
InitLeach ==
    /\ pc = "loop"
    /\ proto = "LEACH"
    /\ rounds = 1
    /\ packets \in PacketChoices
    /\ hard = NoTh[1]
    /\ soft = NoTh[2]
    /\ nodes \in LeachPopulations
    /\ r = 0
    /\ delivered_total = 0
    /\ dead_history = <<>>
    /\ energy_history = <<>>
    /\ paths = <<>>
    /\ delivered = 0
    /\ alive_nodes = <<>>
    /\ cluster_heads = <<>>
    /\ i = 0
    /\ results = <<>>
    /\ calls = 0
    /\ returned = <<>>
    /\ pre = nodes
    /\ log = <<>>

\* comparison mode: the first protocol's population created, its count at 0
InitCompare ==
    /\ pc = "loop"
    /\ proto = CompareProtocols[1]
    /\ rounds \in CompareRounds
    /\ packets \in PacketChoices
    /\ hard = NoTh[1]
    /\ soft = NoTh[2]
    /\ nodes \in Populations(Positions, NumNodes)
    /\ r = 0
    /\ delivered_total = 0
    /\ dead_history = <<>>
    /\ energy_history = <<>>
    /\ paths = <<>>
    /\ delivered = 0
    /\ alive_nodes = <<>>
    /\ cluster_heads = <<>>
    /\ i = 0
    /\ results = <<>>
    /\ calls = 0
    /\ returned = <<>>
    /\ pre = nodes
    /\ log = <<>>

\* ------------------------------------------------------------ direct_routing
\* mutant: the loop bound is off by one
CallOnceMore(p) ==
    /\ pc = "loop"
    /\ r <= rounds
    /\ proto = p
    /\ paths' = <<>>
    /\ delivered' = 0
    /\ i' = 1
    /\ pre' = nodes
    /\ log' = <<>>
    /\ calls' = calls + 1
    /\ UNCHANGED <<proto, rounds, packets, hard, soft, nodes, r, delivered_total,
                   dead_history, energy_history, results, returned>>

Call(p) ==
    /\ pc = "loop"
    /\ r < rounds
    /\ proto = p
    /\ paths' = <<>>
    /\ delivered' = 0
    /\ i' = 1
    /\ pre' = nodes
    /\ log' = <<>>
    /\ calls' = calls + 1
    /\ UNCHANGED <<proto, rounds, packets, hard, soft, nodes, r, delivered_total,
                   dead_history, energy_history, results, returned>>

DirectBegin ==
    /\ Call("Direct")
    /\ pc' = "direct"
    /\ UNCHANGED <<alive_nodes, cluster_heads>>

\* mutant: packets and edge are added without the survival gate
DirectStepNoGate ==
    /\ pc = "direct"
    /\ i <= Len(nodes)
    /\ i' = i + 1
    /\ IF ~nodes[i].alive
       THEN UNCHANGED <<nodes, delivered, paths, log>>
       ELSE LET d == distance(nodes[i].pos, BS_POS)
                n == use_energy(nodes[i], TxAmount(d, 50))
            IN  /\ nodes' = [nodes EXCEPT ![i] = n]
                /\ delivered' = delivered + packets
                /\ paths' = Append(paths, <<n.pos, BS_POS>>)
                /\ log' = Append(log, Entry(i, 0, TRUE, TRUE, n.alive, TRUE, TRUE, -1))
    /\ UNCHANGED <<pc, proto, rounds, packets, hard, soft, r, delivered_total,
                   dead_history, energy_history, results, calls, returned, alive_nodes,
                   cluster_heads, pre>>

DirectStep ==
    /\ pc = "direct"
    /\ i <= Len(nodes)
    /\ i' = i + 1
    /\ IF ~nodes[i].alive
       THEN UNCHANGED <<nodes, delivered, paths, log>>
       ELSE LET d == distance(nodes[i].pos, BS_POS)
                n == use_energy(nodes[i], TxAmount(d, 50))
            IN  /\ nodes' = [nodes EXCEPT ![i] = n]
                /\ delivered' = IF n.alive THEN delivered + packets ELSE delivered
                /\ paths' = IF n.alive THEN Append(paths, <<n.pos, BS_POS>>) ELSE paths
                /\ log' = Append(log, Entry(i, 0, TRUE, TRUE, n.alive, n.alive, n.alive, -1))
    /\ UNCHANGED <<pc, proto, rounds, packets, hard, soft, r, delivered_total,
                   dead_history, energy_history, results, calls, returned, alive_nodes,
                   cluster_heads, pre>>

DirectReturn ==
    /\ pc = "direct"
    /\ i > Len(nodes)
    /\ pc' = "ret"
    /\ UNCHANGED <<proto, rounds, packets, hard, soft, nodes, r, delivered_total,
                   dead_history, energy_history, results, calls, returned, paths,
                   delivered, alive_nodes,
                   cluster_heads, i, pre, log>>

\* ------------------------------------------------------------ leach
\* mutant: the heads are sampled from the whole population, dead nodes included
HeadChoicesAll(an) ==
    LET all == AliveIdxAll(nodes)
    IN  IF FreeRound(r) THEN Samples(all, NumCH(Len(an)))
        ELSE {SubSeq(all, Len(all) - NumCH(Len(an)) + 1, Len(all))}

\* the samples explored in this round
HeadChoices(an) ==
    IF FreeRound(r) THEN Samples(an, NumCH(Len(an)))
    ELSE {SubSeq(an, Len(an) - NumCH(Len(an)) + 1, Len(an))}

LeachBegin ==
    /\ Call("LEACH")
    /\ alive_nodes' = AliveIdx(nodes)
    /\ IF alive_nodes' = <<>>
       THEN /\ pc' = "ret"
            /\ cluster_heads' = <<>>
       ELSE /\ pc' = "leach"
            /\ cluster_heads' \in HeadChoices(alive_nodes')

LeachStep ==
    /\ pc = "leach"
    /\ i <= Len(alive_nodes)
    /\ i' = i + 1
    /\ LET k == alive_nodes[i]
       IN  IF InSeq(k, cluster_heads)
           THEN LET d == distance(nodes[k].pos, BS_POS)
                    n == use_energy(nodes[k], TxAmount(d, 60))
                IN  /\ nodes' = [nodes EXCEPT ![k] = n]
                    /\ delivered' = delivered + packets
                    /\ paths' = Append(paths, <<n.pos, BS_POS>>)
                    /\ log' = Append(log, Entry(k, 0, TRUE, nodes[k].alive, n.alive,
                                                TRUE, TRUE, -1))
           ELSE \E ch \in {NearestHead(nodes, cluster_heads, nodes[k].pos)} :
                LET d == distance(nodes[k].pos, nodes[ch].pos)
                    n == use_energy(nodes[k], TxAmount(d, 60))
                    h == use_energy(nodes[ch], RxAmount)
                IN  /\ nodes' = [nodes EXCEPT ![k] = n, ![ch] = h]
                    /\ delivered' = delivered
                    /\ paths' = Append(paths, <<n.pos, h.pos>>)
                    /\ log' = Append(log, Entry(k, ch, TRUE, nodes[k].alive, n.alive,
                                                TRUE, FALSE, -1))
    /\ UNCHANGED <<pc, proto, rounds, packets, hard, soft, r, delivered_total,
                   dead_history, energy_history, results, calls, returned, alive_nodes,
                   cluster_heads, pre>>

LeachReturn ==
    /\ pc = "leach"
    /\ i > Len(alive_nodes)
    /\ pc' = "ret"
    /\ UNCHANGED <<proto, rounds, packets, hard, soft, nodes, r, delivered_total,
                   dead_history, energy_history, results, calls, returned, paths,
                   delivered, alive_nodes,
                   cluster_heads, i, pre, log>>

\* ------------------------------------------------------------ pegasis
\* mutant: the chain is built over the whole population, dead nodes included
PegasisBeginAll ==
    /\ Call("PEGASIS")
    /\ alive_nodes' = SortByX(nodes, AliveIdxAll(nodes))
    /\ pc' = "pegasis"
    /\ UNCHANGED cluster_heads

PegasisBegin ==
    /\ Call("PEGASIS")
    /\ alive_nodes' = SortByX(nodes, AliveIdx(nodes))
    /\ pc' = "pegasis"
    /\ UNCHANGED cluster_heads

PegasisHop ==
    /\ pc = "pegasis"
    /\ i <= Len(alive_nodes) - 1
    /\ i' = i + 1
    /\ LET a == alive_nodes[i]
           b == alive_nodes[i + 1]
           d == distance(nodes[a].pos, nodes[b].pos)
           na == use_energy(nodes[a], TxAmount(d, 70))
           nb == use_energy(nodes[b], RxAmount)
       IN  /\ nodes' = [nodes EXCEPT ![a] = na, ![b] = nb]
           /\ paths' = Append(paths, <<na.pos, nb.pos>>)
           /\ log' = Append(log, Entry(a, b, TRUE, nodes[a].alive, na.alive,
                                       TRUE, FALSE, -1))
    /\ UNCHANGED <<pc, proto, rounds, packets, hard, soft, r, delivered_total,
                   dead_history, energy_history, results, calls, returned, delivered,
                   alive_nodes,
                   cluster_heads, pre>>

PegasisLast ==
    /\ pc = "pegasis"
    /\ i > Len(alive_nodes) - 1
    /\ pc' = "ret"
    /\ IF alive_nodes # <<>>
       THEN LET k == alive_nodes[Len(alive_nodes)]
                d == distance(nodes[k].pos, BS_POS)
                n == use_energy(nodes[k], TxAmount(d, 60))
            IN  /\ nodes' = [nodes EXCEPT ![k] = n]
                /\ delivered' = delivered + packets
                /\ paths' = Append(paths, <<n.pos, BS_POS>>)
                /\ log' = Append(log, Entry(k, 0, TRUE, nodes[k].alive, n.alive,
                                            TRUE, TRUE, -1))
       ELSE UNCHANGED <<nodes, delivered, paths, log>>
    /\ UNCHANGED <<proto, rounds, packets, hard, soft, r, delivered_total,
                   dead_history, energy_history, results, calls, returned, alive_nodes,
                   cluster_heads, i, pre>>

\* ------------------------------------------------------------ teen
\* the sensed values explored in this round
SensedChoices ==
    IF FreeRound(r) THEN SensedVals
    ELSE {CHOOSE v \in SensedVals : \A w \in SensedVals : w <= v}

\* mutant: the hard-threshold clause is dropped
TriggersSoftOnly(sensed, hard_th, soft_th) == sensed - soft_th >= 0

\* mutant: the soft-threshold clause is dropped
TriggersHardOnly(sensed, hard_th, soft_th) == sensed >= hard_th

Triggers(sensed, hard_th, soft_th) == sensed >= hard_th /\ sensed - soft_th >= 0

TeenBegin ==
    /\ Call("TEEN")
    /\ pc' = "teen"
    /\ UNCHANGED <<alive_nodes, cluster_heads>>

\* mutant: packets and edge are added without the survival gate
TeenStepNoGate ==
    /\ pc = "teen"
    /\ i <= Len(nodes)
    /\ i' = i + 1
    /\ IF ~nodes[i].alive
       THEN UNCHANGED <<nodes, delivered, paths, log>>
       ELSE \E sensed \in SensedChoices :
                IF Triggers(sensed, hard, soft)
                THEN LET d == distance(nodes[i].pos, BS_POS)
                         n == use_energy(nodes[i], TxAmount(d, 55))
                     IN  /\ nodes' = [nodes EXCEPT ![i] = n]
                         /\ delivered' = delivered + packets
                         /\ paths' = Append(paths, <<n.pos, BS_POS>>)
                         /\ log' = Append(log, Entry(i, 0, TRUE, TRUE, n.alive, TRUE,
                                                     TRUE, sensed))
                ELSE /\ log' = Append(log, Entry(i, 0, FALSE, TRUE, TRUE, FALSE, FALSE,
                                                 sensed))
                     /\ UNCHANGED <<nodes, delivered, paths>>
    /\ UNCHANGED <<pc, proto, rounds, packets, hard, soft, r, delivered_total,
                   dead_history, energy_history, results, calls, returned, alive_nodes,
                   cluster_heads, pre>>

TeenStep ==
    /\ pc = "teen"
    /\ i <= Len(nodes)
    /\ i' = i + 1
    /\ IF ~nodes[i].alive
       THEN UNCHANGED <<nodes, delivered, paths, log>>
       ELSE \E sensed \in SensedChoices :
                IF Triggers(sensed, hard, soft)
                THEN LET d == distance(nodes[i].pos, BS_POS)
                         n == use_energy(nodes[i], TxAmount(d, 55))
                     IN  /\ nodes' = [nodes EXCEPT ![i] = n]
                         /\ delivered' = IF n.alive THEN delivered + packets ELSE delivered
                         /\ paths' = IF n.alive THEN Append(paths, <<n.pos, BS_POS>>)
                                     ELSE paths
                         /\ log' = Append(log, Entry(i, 0, TRUE, TRUE, n.alive, n.alive,
                                                     n.alive, sensed))
                ELSE /\ log' = Append(log, Entry(i, 0, FALSE, TRUE, TRUE, FALSE, FALSE,
                                                 sensed))
                     /\ UNCHANGED <<nodes, delivered, paths>>
    /\ UNCHANGED <<pc, proto, rounds, packets, hard, soft, r, delivered_total,
                   dead_history, energy_history, results, calls, returned, alive_nodes,
                   cluster_heads, pre>>

TeenReturn ==
    /\ pc = "teen"
    /\ i > Len(nodes)
    /\ pc' = "ret"
    /\ UNCHANGED <<proto, rounds, packets, hard, soft, nodes, r, delivered_total,
                   dead_history, energy_history, results, calls, returned, paths,
                   delivered, alive_nodes,
                   cluster_heads, i, pre, log>>

\* ------------------------------------------------------------ round driver
\* the routing function has returned: accumulate the round's metrics
RoundEnd ==
    /\ pc = "ret"
    /\ delivered_total' = delivered_total + delivered
    /\ dead_history' = Append(dead_history, DeadCount(nodes))
    /\ energy_history' = Append(energy_history, ResidualEnergy(nodes))
    /\ r' = r + 1
    /\ pc' = "loop"
    /\ alive_nodes' = <<>>
    /\ cluster_heads' = <<>>
    /\ i' = 0
    /\ returned' = Append(returned, delivered)
    /\ UNCHANGED <<proto, rounds, packets, hard, soft, nodes, paths, delivered, results,
                   calls, pre, log>>

\* all rounds done: the final state is drawn and reported
Finish ==
    /\ pc = "loop"
    /\ r = rounds
    /\ pc' = "done"
    /\ UNCHANGED <<proto, rounds, packets, hard, soft, nodes, r, delivered_total,
                   dead_history, energy_history, results, calls, returned, paths,
                   delivered, alive_nodes,
                   cluster_heads, i, pre, log>>

\* ------------------------------------------------------------ comparison
\* sum(n["alive"] for n in nodes)
AliveCount(ns) == Cardinality({k \in 1..Len(ns) : ns[k].alive})

\* results with the entry of the protocol just run
Reported ==
    [p \in DOMAIN results \cup {proto} |->
        IF p = proto THEN [alive |-> AliveCount(nodes), delivered |-> delivered_total]
        ELSE results[p]]

\* the place of the current protocol in protocols[:3]
ProtoPlace == CHOOSE k \in 1..Len(CompareProtocols) : CompareProtocols[k] = proto

\* the routing function has returned: delivered += d (delivered_total holds the
\* comparison loop's count)
CompareRoundEnd ==
    /\ pc = "ret"
    /\ delivered_total' = delivered_total + delivered
    /\ r' = r + 1
    /\ pc' = "loop"
    /\ alive_nodes' = <<>>
    /\ cluster_heads' = <<>>
    /\ i' = 0
    /\ returned' = Append(returned, delivered)
    /\ UNCHANGED <<proto, rounds, packets, hard, soft, nodes, dead_history,
                   energy_history, paths, delivered, results, calls, pre, log>>

\* mutant: the next protocol runs on the population the last one left
CompareNextProtoShared ==
    /\ pc = "loop"
    /\ r = rounds
    /\ ProtoPlace < Len(CompareProtocols)
    /\ results' = Reported
    /\ proto' = CompareProtocols[ProtoPlace + 1]
    /\ nodes' = nodes
    /\ delivered_total' = 0
    /\ r' = 0
    /\ calls' = 0
    /\ returned' = <<>>
    /\ pre' = nodes'
    /\ UNCHANGED <<pc, rounds, packets, hard, soft, dead_history, energy_history,
                   paths, delivered, alive_nodes, cluster_heads, i, log>>

\* a protocol's run is over: report it, create the next protocol's population
CompareNextProto ==
    /\ pc = "loop"
    /\ r = rounds
    /\ ProtoPlace < Len(CompareProtocols)
    /\ results' = Reported
    /\ proto' = CompareProtocols[ProtoPlace + 1]
    /\ nodes' \in Populations(Positions, Len(nodes))
    /\ delivered_total' = 0
    /\ r' = 0
    /\ calls' = 0
    /\ returned' = <<>>
    /\ pre' = nodes'
    /\ UNCHANGED <<pc, rounds, packets, hard, soft, dead_history, energy_history,
                   paths, delivered, alive_nodes, cluster_heads, i, log>>

\* the last protocol's run is over: report it, show the table
CompareFinish ==
    /\ pc = "loop"
    /\ r = rounds
    /\ ProtoPlace = Len(CompareProtocols)
    /\ results' = Reported
    /\ pc' = "done"
    /\ UNCHANGED <<proto, rounds, packets, hard, soft, nodes, r, delivered_total,
                   dead_history, energy_history, paths, delivered, alive_nodes,
                   cluster_heads, i, calls, returned, pre, log>>

NextCompare ==
    \/ DirectBegin
    \/ DirectStep
    \/ DirectReturn
    \/ LeachBegin
    \/ LeachStep
    \/ LeachReturn
    \/ PegasisBegin
    \/ PegasisHop
    \/ PegasisLast
    \/ CompareRoundEnd
    \/ CompareNextProto
    \/ CompareFinish

\* ------------------------------------------------------------ specifications
Next ==
    \/ DirectBegin
    \/ DirectStep
    \/ DirectReturn
    \/ LeachBegin
    \/ LeachStep
    \/ LeachReturn
    \/ PegasisBegin
    \/ PegasisHop
    \/ PegasisLast
    \/ TeenBegin
    \/ TeenStep
    \/ TeenReturn
    \/ RoundEnd
    \/ Finish

Spec == Init /\ [][Next]_vars

SpecGiven == InitGiven /\ [][Next]_vars

\* the script runs to its end: it is sequential and nothing suspends it
SpecFair == Init /\ [][Next]_vars /\ WF_vars(Next)

\* comparison mode
SpecCompare == InitCompare /\ [][NextCompare]_vars

\* leach() alone, called once
NextLeach ==
    \/ LeachBegin
    \/ LeachStep
    \/ LeachReturn
    \/ RoundEnd
    \/ Finish

SpecLeach == InitLeach /\ [][NextLeach]_vars

\* ------------------------------------------------------------ properties
AllDead(ns) == \A k \in 1..Len(ns) : ~ns[k].alive

LogIdx == 1..Len(log)

\* the number of loop iterations of the round that added packets
Counted == Cardinality({k \in LogIdx : log[k].counted})

\* the round's routing function is running or has just returned
InRound == pc \in {"direct", "leach", "pegasis", "teen", "ret"}

\* C1: in every step of a run of any protocol, a node that is dead stays dead
\* (alive never goes from false back to true).
AliveMonotone ==
    [][\A k \in 1..Len(nodes) : ~nodes[k].alive => ~nodes'[k].alive]_vars

\* a round has made debits while some node was dead since before the round
DeadAcrossRound ==
    /\ pc = "ret"
    /\ log # <<>>
    /\ \E k \in 1..Len(nodes) : ~pre[k].alive /\ ~nodes[k].alive

\* C2 as claimed: in every protocol, packets are added only for a transmission
\* whose transmitter is still alive after its own debit.
DeliveredOnlyIfSurvives ==
    \A k \in LogIdx : log[k].counted => log[k].after

\* C2 as amended: the delivered count is packets times the number of
\* transmissions to the base station that were counted; in Direct and TEEN a
\* transmission is counted exactly when its node is alive after its debit; in
\* LEACH and PEGASIS every transmission to the base station (by a cluster head,
\* by the chain end) is counted, whatever the node's alive flag.
DeliveredGate ==
    InRound =>
        /\ delivered = packets * Counted
        /\ \A k \in LogIdx :
            /\ log[k].counted => (log[k].tx /\ log[k].dst = 0)
            /\ proto \in {"Direct", "TEEN"} =>
                   (log[k].counted <=> (log[k].tx /\ log[k].after))
            /\ proto \in {"LEACH", "PEGASIS"} =>
                   (log[k].counted <=> log[k].dst = 0)

\* a LEACH head or PEGASIS chain end dead after its debit was counted
CountedThoughDead ==
    /\ pc = "ret"
    /\ \E k \in LogIdx : log[k].counted /\ ~log[k].after
    /\ delivered > 0

\* C3 as claimed: a node whose energy is at or below zero is never afterwards
\* the source of an emitted edge nor the transmitter of a delivery.
DeadNeverTransmits ==
    \A k \in LogIdx : (log[k].edge \/ log[k].counted) => log[k].before

\* C4 as claimed: TEEN with hard threshold 0: every node alive at the start of
\* the round transmits, whatever the soft threshold and the sensed value.
TeenHardZeroAllTransmit ==
    (proto = "TEEN" /\ hard = 0) => \A k \in LogIdx : log[k].tx

\* C4 as amended: TEEN with hard threshold 0: a node alive at the start of the
\* round transmits (pays the direct-to-base debit) exactly when its sensed
\* value is at least the soft threshold; otherwise its energy is unchanged.
TeenHardZeroSoftGate ==
    (proto = "TEEN" /\ hard = 0 /\ InRound) =>
        \A k \in LogIdx :
            LET n == log[k].src
                due == IF log[k].sensed >= soft
                       THEN TxAmount(distance(pre[n].pos, BS_POS), 55)
                       ELSE 0
            IN  /\ pre[n].alive
                /\ log[k].tx <=> log[k].sensed >= soft
                /\ nodes[n].energy = pre[n].energy - due

\* with hard threshold 0, one node transmitted and another did not
TeenHardZeroMixed ==
    /\ proto = "TEEN"
    /\ hard = 0
    /\ pc = "ret"
    /\ \E k \in LogIdx : log[k].tx
    /\ \E k \in LogIdx : ~log[k].tx

\* C5: the residual-energy series recorded by the driver is non-increasing
\* from each round to the next.
EnergySeriesNonIncreasing ==
    \A k \in 1..(Len(energy_history) - 1) : energy_history[k + 1] <= energy_history[k]

\* the series fell in one round and stayed level in another
EnergySeriesFellAndLevel ==
    /\ \E k \in 1..(Len(energy_history) - 1) : energy_history[k + 1] < energy_history[k]
    /\ \E k \in 1..(Len(energy_history) - 1) : energy_history[k + 1] = energy_history[k]

\* C6: the dead-count series recorded by the driver is non-decreasing from
\* each round to the next.
DeadSeriesNonDecreasing ==
    \A k \in 1..(Len(dead_history) - 1) : dead_history[k + 1] >= dead_history[k]

\* the series rose in one round and stayed level in another
DeadSeriesRoseAndLevel ==
    /\ \E k \in 1..(Len(dead_history) - 1) : dead_history[k + 1] > dead_history[k]
    /\ \E k \in 1..(Len(dead_history) - 1) : dead_history[k + 1] = dead_history[k]

\* C7: a debit called on a dead node changes nothing: in every loop iteration
\* whose transmit debit is called on a dead source, or whose receive charge is
\* called on a dead destination, that node's energy and alive flag are as
\* before the call.
DeadDebitNoOp ==
    [][Len(log') = Len(log) + 1 =>
        LET e == log'[Len(log')]
        IN  /\ (e.tx /\ ~nodes[e.src].alive) => nodes'[e.src] = nodes[e.src]
            /\ (e.dst # 0 /\ ~nodes[e.dst].alive) => nodes'[e.dst] = nodes[e.dst]]_vars

\* in one round a node was debited while dead both as destination of a receive
\* charge and as source of its own transmission, and is as it was when it died
DeadDebitedTwice ==
    /\ pc = "ret"
    /\ \E j, k \in LogIdx :
           /\ j < k
           /\ log[j].dst = log[k].src
           /\ log[k].tx
           /\ ~log[k].before
           /\ \E h \in 1..(j - 1) : log[h].dst = log[k].src
           /\ pre[log[k].src].alive
           /\ ~nodes[log[k].src].alive

\* C8: a round entered with no node alive returns the node set unchanged, no
\* edge and a delivered count of 0, in every protocol, and does not fail (the
\* call and every step of it can be taken).
ZeroAliveRound ==
    /\ (pc = "loop" /\ r < rounds /\ AllDead(nodes)) => ENABLED Next
    /\ (InRound /\ AllDead(pre)) =>
           /\ nodes = pre
           /\ paths = <<>>
           /\ delivered = 0
           /\ log = <<>>
           /\ ENABLED Next

\* a LEACH round entered with no node alive has returned
ZeroAliveReturned ==
    /\ pc = "ret"
    /\ proto = "LEACH"
    /\ AllDead(pre)
    /\ r > 0

\* the nodes alive at the start of the round and still alive now
Survivors == {k \in 1..Len(nodes) : pre[k].alive /\ nodes[k].alive}

\* C9: a Direct round debits every node alive at its start the transmit cost
\* to the base station, leaves the others alone, returns packets times the
\* number of those nodes still alive after their debit, and one edge (node
\* position, base station position) per such survivor, in node order, and none
\* for a node that died transmitting.
DirectRound ==
    (proto = "Direct" /\ pc = "ret") =>
        /\ \A k \in 1..Len(nodes) :
            LET due == IF pre[k].alive
                       THEN (TX_COST * distance(pre[k].pos, BS_POS)) \div 50
                       ELSE 0
            IN  /\ nodes[k].energy = pre[k].energy - due
                /\ nodes[k].alive = (pre[k].alive /\ nodes[k].energy > 0)
                /\ nodes[k].pos = pre[k].pos
                /\ nodes[k].id = pre[k].id
        /\ delivered = packets * Cardinality(Survivors)
        /\ Len(paths) = Cardinality(Survivors)
        /\ \A k \in Survivors :
               paths[Cardinality({j \in Survivors : j <= k})] = <<nodes[k].pos, BS_POS>>

\* a Direct round in which one node died transmitting and another survived
DirectDiedAndSurvived ==
    /\ proto = "Direct"
    /\ pc = "ret"
    /\ Survivors # {}
    /\ \E k \in 1..Len(nodes) : pre[k].alive /\ ~nodes[k].alive

\* the nodes that sit on the base station
AtBase == {k \in 1..Len(nodes) : nodes[k].pos = BS_POS}

\* C10: under Direct routing a node on the base station's position keeps its
\* initial energy and stays alive in every state, and has delivered its packets
\* in every round returned; a run of one such node, 1 round and 5 packets ends
\* with delivered_total = 5 and dead series <<0>>.
AtBaseStation ==
    proto = "Direct" =>
        /\ \A k \in AtBase : nodes[k].alive /\ nodes[k].energy = INITIAL_ENERGY
        /\ pc = "ret" =>
               \A k \in AtBase : \E j \in LogIdx :
                   log[j].src = k /\ log[j].counted /\ log[j].edge
        /\ pc \in {"loop", "done"} =>
               delivered_total >= packets * Cardinality(AtBase) * r
        /\ (pc = "done" /\ Len(nodes) = 1 /\ AtBase = {1} /\ rounds = 1 /\ packets = 5) =>
               (delivered_total = 5 /\ dead_history = <<0>>)

\* the run of one node on the base station, 1 round, 5 packets, has ended
AtBaseRunDone ==
    /\ proto = "Direct"
    /\ pc = "done"
    /\ Len(nodes) = 1
    /\ AtBase = {1}
    /\ rounds = 1
    /\ packets = 5
    /\ delivered_total = 5

\* the nodes alive at the start of the round
AliveAtStart == {k \in 1..Len(pre) : pre[k].alive}

\* the cluster heads of the round, as a set
Heads == {cluster_heads[a] : a \in 1..Len(cluster_heads)}

\* C11: a LEACH round with a >= 1 nodes alive at its start has exactly
\* max(1, floor(a / 10)) cluster heads, distinct and all alive at the start of
\* the round, and returns packets times the number of heads as its delivered
\* count, whether or not a head survives the round.
LeachHeadCount ==
    (proto = "LEACH" /\ pc \in {"leach", "ret"} /\ AliveAtStart # {}) =>
        LET a == Cardinality(AliveAtStart)
            want == IF a \div 10 >= 1 THEN a \div 10 ELSE 1
        IN  /\ Len(cluster_heads) = want
            /\ Cardinality(Heads) = want
            /\ Heads \subseteq AliveAtStart
            /\ pc = "ret" => delivered = packets * want

\* a round of two heads, one dead and one alive at the return, both counted
LeachTwoHeadsOneDied ==
    /\ proto = "LEACH"
    /\ pc = "ret"
    /\ Cardinality(Heads) = 2
    /\ \E h \in Heads : ~nodes[h].alive
    /\ \E h \in Heads : nodes[h].alive
    /\ delivered = 2 * packets

\* C12: a LEACH round with exactly one node alive at its start: that node is
\* the single cluster head, it is debited the transmit cost to the base
\* station, every other node is left as it was, the edge list is exactly the
\* one edge (node position, base station position), no member-to-head edge is
\* emitted, and delivered equals packets.
LeachSingleAlive ==
    (proto = "LEACH" /\ pc \in {"leach", "ret"} /\ Cardinality(AliveAtStart) = 1) =>
        LET k == CHOOSE n \in AliveAtStart : TRUE
            e == pre[k].energy - (TX_COST * distance(pre[k].pos, BS_POS)) \div 60
        IN  /\ cluster_heads = <<k>>
            /\ \A j \in LogIdx : log[j].dst = 0
            /\ pc = "ret" =>
                   /\ nodes[k] = [pre[k] EXCEPT !.energy = e, !.alive = (e > 0)]
                   /\ \A j \in 1..Len(nodes) : j # k => nodes[j] = pre[j]
                   /\ paths = <<<<pre[k].pos, BS_POS>>>>
                   /\ delivered = packets

\* the last survivor of a population of several nodes has been the only head
LeachLastSurvivor ==
    /\ proto = "LEACH"
    /\ pc = "ret"
    /\ Cardinality(AliveAtStart) = 1
    /\ Len(nodes) > 1
    /\ Len(paths) = 1
    /\ delivered = packets

\* the debit operation: an alive node loses the amount and is marked dead when
\* its energy is then at or below zero; a dead node is left as it is
Debit(node, amount) ==
    IF ~node.alive THEN node
    ELSE [node EXCEPT !.energy = node.energy - amount,
                      !.alive = node.energy - amount > 0]

\* the debits of a sequence of amounts, applied in order
RECURSIVE Debits(_, _)
Debits(node, amounts) ==
    IF amounts = <<>> THEN node
    ELSE Debits(Debit(node, Head(amounts)), Tail(amounts))

\* the k-th smallest element of a set of numbers
Nth(S, k) == CHOOSE x \in S : Cardinality({y \in S : y <= x}) = k

\* the head serving member m: at minimal distance among the heads of the round,
\* the first such head in head order
Serving(m) ==
    LET dist(a) == distance(pre[cluster_heads[a]].pos, pre[m].pos)
        a == CHOOSE x \in 1..Len(cluster_heads) :
                 \A y \in 1..Len(cluster_heads) :
                     dist(x) < dist(y) \/ (dist(x) = dist(y) /\ x <= y)
    IN  cluster_heads[a]

\* what a LEACH round charges node k, in the order of the round: a member its
\* transmit debit to the serving head; a head the receive cost once for every
\* member it serves and its own transmit debit to the base station
RECURSIVE LeachCharges(_, _)
LeachCharges(k, j) ==
    IF j > Cardinality(AliveAtStart) THEN <<>>
    ELSE LET m == Nth(AliveAtStart, j)
             now == IF m = k /\ k \in Heads
                        THEN <<(TX_COST * distance(pre[k].pos, BS_POS)) \div 60>>
                    ELSE IF m = k
                        THEN <<(TX_COST * distance(pre[k].pos, pre[Serving(k)].pos)) \div 60>>
                    ELSE IF m \notin Heads /\ k \in Heads /\ Serving(m) = k
                        THEN <<(RX_COST * 4) \div 10>>
                    ELSE <<>>
         IN  now \o LeachCharges(k, j + 1)

\* C13: at the return of a LEACH round, the j-th node alive at its start has
\* emitted the j-th edge: a member to the head at minimal distance (the first
\* such head in head order on a tie), a head to the base station; so the round
\* emits as many edges as there were alive nodes at its start.  A member pays
\* the transmit debit for the distance to its head, and a head is charged the
\* receive cost once per member it serves, besides its own transmit debit.
LeachEdgesAndCharges ==
    (proto = "LEACH" /\ pc = "ret" /\ AliveAtStart # {}) =>
        /\ Len(paths) = Cardinality(AliveAtStart)
        /\ Len(log) = Cardinality(AliveAtStart)
        /\ \A j \in LogIdx :
               LET m == Nth(AliveAtStart, j)
               IN  /\ log[j].src = m
                   /\ log[j].edge
                   /\ IF m \in Heads
                      THEN log[j].dst = 0 /\ paths[j] = <<pre[m].pos, BS_POS>>
                      ELSE /\ log[j].dst = Serving(m)
                           /\ paths[j] = <<pre[m].pos, pre[Serving(m)].pos>>
                           /\ log[j].before
        /\ \A k \in 1..Len(nodes) : nodes[k] = Debits(pre[k], LeachCharges(k, 1))
        /\ \A k \in AliveAtStart \ Heads :
               nodes[k].energy = pre[k].energy
                   - (TX_COST * distance(pre[k].pos, pre[Serving(k)].pos)) \div 60
        /\ \A h \in Heads :
               nodes[h].alive =>
                   nodes[h].energy = pre[h].energy
                       - (TX_COST * distance(pre[h].pos, BS_POS)) \div 60
                       - ((RX_COST * 4) \div 10)
                           * Cardinality({m \in AliveAtStart \ Heads : Serving(m) = h})

\* two heads on the same position, the first in head order being the later
\* node, have served members, one of which died transmitting
LeachTieServed ==
    /\ proto = "LEACH"
    /\ pc = "ret"
    /\ Len(cluster_heads) = 2
    /\ cluster_heads[1] > cluster_heads[2]
    /\ pre[cluster_heads[1]].pos = pre[cluster_heads[2]].pos
    /\ \E j \in LogIdx : log[j].dst = cluster_heads[1] /\ ~log[j].after
    /\ Len(paths) = Len(pre)

\* C14: at the return of a PEGASIS round with k >= 1 nodes alive at its start,
\* the chain is those k nodes in ascending x-coordinate; the edge list is the
\* k-1 hops between consecutive chain nodes, in chain order, followed by one
\* edge from the last chain node to the base station; only the last chain node
\* has transmitted to the base station, and the delivered count is packets.
PegasisChain ==
    (proto = "PEGASIS" /\ pc = "ret" /\ AliveAtStart # {}) =>
        LET k == Cardinality(AliveAtStart)
        IN  /\ Len(alive_nodes) = k
            /\ {alive_nodes[a] : a \in 1..k} = AliveAtStart
            /\ \A a \in 1..(k - 1) :
                   pre[alive_nodes[a]].pos[1] <= pre[alive_nodes[a + 1]].pos[1]
            /\ Len(paths) = k
            /\ \A a \in 1..(k - 1) :
                   paths[a] = <<pre[alive_nodes[a]].pos, pre[alive_nodes[a + 1]].pos>>
            /\ paths[k] = <<pre[alive_nodes[k]].pos, BS_POS>>
            /\ Len(log) = k
            /\ \A a \in 1..k :
                   /\ log[a].src = alive_nodes[a]
                   /\ log[a].dst = (IF a < k THEN alive_nodes[a + 1] ELSE 0)
                   /\ log[a].counted <=> a = k
            /\ delivered = packets

\* a chain of three nodes whose order by x is not their order in the list
PegasisChainReordered ==
    /\ proto = "PEGASIS"
    /\ pc = "ret"
    /\ Len(alive_nodes) = 3
    /\ alive_nodes[1] > alive_nodes[2]
    /\ pre[alive_nodes[2]].pos[1] < pre[alive_nodes[3]].pos[1]
    /\ Len(paths) = 3
    /\ delivered = packets

\* the place of node k in the chain of the round (0: not in the chain)
ChainPlace(k) ==
    IF InSeq(k, alive_nodes) THEN CHOOSE a \in 1..Len(alive_nodes) : alive_nodes[a] = k
    ELSE 0

\* what a PEGASIS round charges node k, in the order of the round: the receive
\* charge unless k is first in the chain, then the transmit debit to the next
\* chain node, or to the base station when k is last
PegasisCharges(k) ==
    LET a == ChainPlace(k)
        n == Len(alive_nodes)
        rx == IF a > 1 THEN <<(RX_COST * 4) \div 10>> ELSE <<>>
        tx == IF a < n
              THEN <<(TX_COST * distance(pre[k].pos, pre[alive_nodes[a + 1]].pos)) \div 70>>
              ELSE <<(TX_COST * distance(pre[k].pos, BS_POS)) \div 60>>
    IN  IF a = 0 THEN <<>> ELSE rx \o tx

\* C15: at the return of a PEGASIS round every chain node except the first has
\* been charged the receive cost once, every chain node except the last the
\* transmit debit for the distance to its successor, and the last the transmit
\* debit to the base station, each through the debit operation and in this
\* order; a node alive at the return has lost exactly the sum of its charges,
\* and a node outside the chain is as it was.
PegasisDebits ==
    (proto = "PEGASIS" /\ pc = "ret") =>
        \A k \in 1..Len(nodes) :
            /\ nodes[k] = Debits(pre[k], PegasisCharges(k))
            /\ nodes[k].alive => nodes[k].energy = pre[k].energy - SumSeq(PegasisCharges(k))
            /\ ChainPlace(k) = 0 => nodes[k] = pre[k]
            /\ \A j \in LogIdx :
                   /\ (log[j].src = k /\ log[j].before) =>
                          nodes[k].energy = pre[k].energy - SumSeq(PegasisCharges(k))
                   /\ log[j].dst = k => pre[k].alive

\* a chain of two in which the first node paid its transmit debit and the
\* last node, killed by its receive charge, was then debited as a dead node
PegasisKilledByReceive ==
    /\ proto = "PEGASIS"
    /\ pc = "ret"
    /\ Len(log) = 2
    /\ log[1].before
    /\ nodes[log[1].src].energy = pre[log[1].src].energy - SumSeq(PegasisCharges(log[1].src))
    /\ ~log[2].before
    /\ nodes[log[2].src].energy = pre[log[2].src].energy - (RX_COST * 4) \div 10

\* C16: in a TEEN round, a node alive at the start whose sensed value does not
\* satisfy (sensed >= hard and sensed - soft >= 0) is unchanged and adds no
\* edge and no packets; a node whose sensed value satisfies it pays the
\* direct-to-base transmit debit and adds packets and one edge to the base
\* station exactly when it is alive after that debit.
TeenRound ==
    (proto = "TEEN" /\ InRound) =>
        /\ \A j \in LogIdx :
               LET n == log[j].src
                   e == pre[n].energy - (TX_COST * distance(pre[n].pos, BS_POS)) \div 55
               IN  /\ pre[n].alive
                   /\ IF log[j].sensed >= hard /\ log[j].sensed - soft >= 0
                      THEN /\ log[j].tx
                           /\ nodes[n] = [pre[n] EXCEPT !.energy = e, !.alive = (e > 0)]
                           /\ log[j].edge <=> nodes[n].alive
                           /\ log[j].counted <=> nodes[n].alive
                      ELSE /\ ~log[j].tx
                           /\ nodes[n] = pre[n]
                           /\ ~log[j].edge
                           /\ ~log[j].counted
        /\ delivered = packets * Counted
        /\ Len(paths) = Counted
        /\ \A a \in 1..Len(paths) :
               \E j \in LogIdx : log[j].edge /\ paths[a] = <<pre[log[j].src].pos, BS_POS>>

\* a round in which one node stayed silent although its sensed value reached
\* the hard threshold, and another transmitted and was counted
TeenSilentAndCounted ==
    /\ proto = "TEEN"
    /\ pc = "ret"
    /\ \E j \in LogIdx : ~log[j].tx /\ log[j].sensed >= hard
    /\ \E j \in LogIdx : log[j].tx /\ log[j].counted
    /\ delivered > 0

\* what every step of the driver respects: a call is made only while rounds
\* remain, on the node set as the previous call left it; the return of a call
\* appends its delivered count and the snapshots of the node set it returned;
\* the run ends with one call, one delivered count and one entry in each
\* series per round
DriverStep ==
    /\ pc' = "done" =>
           /\ calls' = rounds'
           /\ Len(returned') = rounds'
           /\ Len(dead_history') = rounds'
           /\ Len(energy_history') = rounds'
           /\ delivered_total' = SumSeq(returned')
    /\ calls' # calls =>
           /\ calls' = calls + 1
           /\ r < rounds
           /\ calls = Len(returned)
           /\ proto' = proto
           /\ nodes' = nodes
    /\ (pc = "ret" \/ pc = "loop") => nodes' = nodes
    /\ Len(returned') # Len(returned) =>
           /\ calls = Len(returned) + 1
           /\ returned' = Append(returned, delivered)
           /\ dead_history' =
                  Append(dead_history, Cardinality({k \in 1..Len(nodes) : ~nodes[k].alive}))
           /\ energy_history' =
                  Append(energy_history,
                         SumSeq([k \in 1..Len(nodes) |-> Max(nodes[k].energy, 0)]))

\* C17: the round driver started with R rounds terminates, after exactly R
\* calls of the selected routing function, each call receiving the node set
\* the previous one returned; at completion the dead-count series and the
\* residual-energy series have R entries each, entry r being the snapshot of
\* the node set after round r, and delivered_total is the sum of the R
\* delivered counts returned.
DriverTerminates == <>(pc = "done") /\ [][DriverStep]_vars

\* a run of the largest number of rounds has completed
LongRunDone ==
    /\ pc = "done"
    /\ rounds = MaxRounds
    /\ calls = MaxRounds
    /\ Len(dead_history) = MaxRounds
    /\ delivered_total > 0

\* a population as create_nodes makes it: every node alive, with the initial
\* energy and its place in the list as id
Fresh(ns) ==
    \A k \in 1..Len(ns) :
        ns[k].alive /\ ns[k].energy = INITIAL_ENERGY /\ ns[k].id = k - 1

\* what every step of comparison mode respects
CompareStep ==
    /\ proto' \in {"Direct", "LEACH", "PEGASIS"}
    /\ (pc' = "loop" /\ r' = 0) =>
           /\ Fresh(nodes')
           /\ Len(nodes') = Len(nodes)
           /\ delivered_total' = 0
           /\ returned' = <<>>
    /\ (nodes' # nodes /\ ~InRound') => (pc' = "loop" /\ r' = 0)
    /\ proto' # proto => (pc' = "loop" /\ r' = 0 /\ proto \in DOMAIN results')
    /\ results' # results =>
           /\ Len(returned) = rounds
           /\ proto \notin DOMAIN results
           /\ DOMAIN results' = DOMAIN results \cup {proto}
           /\ \A p \in DOMAIN results : results'[p] = results[p]
           /\ results'[proto].alive = Cardinality({k \in 1..Len(nodes) : nodes[k].alive})
           /\ results'[proto].delivered = SumSeq(returned)
    /\ pc' = "done" => DOMAIN results' = {"Direct", "LEACH", "PEGASIS"}

\* C18: comparison mode runs the driver for exactly Direct, LEACH and PEGASIS,
\* never TEEN; each protocol's run starts from a population of its own in
\* which all n nodes are alive with the initial energy, whatever the earlier
\* runs did to theirs; the alive count and the delivered total reported for a
\* protocol are those of its own run: the nodes alive at the end of that run
\* and the sum of the delivered counts of its rounds.
CompareRuns ==
    /\ (Fresh(nodes) /\ results = <<>> /\ delivered_total = 0 /\ proto = "Direct")
    /\ [][CompareStep]_vars

\* the comparison is over; nodes died in the Direct run and the later runs,
\* on populations of their own, report more nodes alive
CompareDoneDiffering ==
    /\ pc = "done"
    /\ DOMAIN results = {"Direct", "LEACH", "PEGASIS"}
    /\ results["Direct"].alive < Len(nodes)
    /\ results["LEACH"].alive > results["Direct"].alive
    /\ results["PEGASIS"].alive > results["Direct"].alive
    /\ results["Direct"].delivered > 0

\* every node is alive exactly when its energy is above zero
AliveIffEnergy(ns) == \A k \in 1..Len(ns) : ns[k].alive <=> ns[k].energy > 0

\* a step changes a node only by debits: the node was alive, it loses a
\* non-negative amount, and it is marked dead exactly when its energy is then
\* at or below zero; its id and position stay
OnlyDebits ==
    /\ Len(nodes') = Len(nodes)
    /\ \A k \in 1..Len(nodes) :
           nodes'[k] # nodes[k] =>
               /\ nodes[k].alive
               /\ nodes'[k].energy <= nodes[k].energy
               /\ nodes'[k] = Debit(nodes[k], nodes[k].energy - nodes'[k].energy)
    /\ AliveIffEnergy(nodes')

\* C19: in every state of a run of any protocol, states in the middle of a
\* round included, every node is alive exactly when its energy is above
\* zero; energy and alive flag change only by the debit operation, which
\* changes the energy only of a node alive at the time.
DeathInvariant == AliveIffEnergy(nodes) /\ [][OnlyDebits]_vars

\* in the middle of a round, a node has just died and another is still to act
DiedMidRound ==
    /\ pc \in {"direct", "leach", "pegasis", "teen"}
    /\ \E k \in 1..Len(nodes) : pre[k].alive /\ ~nodes[k].alive /\ nodes[k].energy < 0
    /\ \E k \in 1..Len(nodes) : nodes[k].alive
    /\ Len(log) < Cardinality(AliveAtStart)

\* the positions of the nodes alive at the start of the round
AlivePositions == {pre[k].pos : k \in AliveAtStart}

\* C20: in every protocol a node dead at the start of a round is untouched by
\* the round: its energy and alive flag are unchanged, it is neither source
\* nor destination of an edge of the round, it is no LEACH cluster head and no
\* PEGASIS chain member; and the collection holds the same nodes, with the
\* same ids and positions, throughout.
DeadUntouched ==
    /\ Len(nodes) = Len(pre)
    /\ \A k \in 1..Len(nodes) :
           /\ nodes[k].id = k - 1
           /\ nodes[k].id = pre[k].id
           /\ nodes[k].pos = pre[k].pos
    /\ InRound =>
           /\ \A k \in 1..Len(nodes) :
                  ~pre[k].alive =>
                      /\ nodes[k] = pre[k]
                      /\ \A j \in LogIdx : log[j].src # k /\ log[j].dst # k
                      /\ k \notin Heads
                      /\ ~InSeq(k, alive_nodes)
           /\ \A a \in 1..Len(paths) :
                  /\ paths[a][1] \in AlivePositions
                  /\ paths[a][2] \in AlivePositions \cup {BS_POS}

\* a LEACH or PEGASIS round of two nodes has returned, in a population whose
\* third node, on a position of its own, was dead at the start
DeadLeftOut ==
    /\ pc = "ret"
    /\ proto \in {"LEACH", "PEGASIS"}
    /\ Cardinality(AliveAtStart) = 2
    /\ Len(paths) = 2
    /\ \E k \in 1..Len(nodes) :
           /\ ~pre[k].alive
           /\ pre[k].pos \notin AlivePositions
           /\ nodes[k] = pre[k]

====
